---- MODULE Spec2Model ----
(***************************************************************************)
(* Model of glutin's iOS backend, src/api/ios/mod.rs: the Context that     *)
(* owns an EAGL rendering context and a view, its construction pipeline    *)
(* (Context::new, create_context, create_uiview_class, init_context), the  *)
(* operations on a Context (make_current, swap_buffers, is_current,        *)
(* resize) and the documented mapping of host lifecycle notifications to   *)
(* events.  The host (Objective-C runtime, UIKit, EAGL, GLES) is modelled  *)
(* by its state and by nondeterministic answers to the calls the code      *)
(* makes.  All calls happen on the one UI thread, so a construction runs   *)
(* step by step with nothing else interleaved.                              *)
(***************************************************************************)
EXTENDS Integers, Sequences, FiniteSets, TLC

(* ---------------------------------------------------------------- bounds *)
MaxNew == 3       \* Context::new calls in one process
MaxEvents == 2    \* lifecycle notifications delivered while contexts are in use
MaxNotifs == 4    \* lifecycle notifications delivered in the lifecycle-only run

(* -------------------------------------------------------- host constants *)
VIEW_CLASS == "MainView"
Nil == 0                       \* the null id
YES == "YES"
NO == "NO"
FAULT == "fault"               \* the host call does not return: memory fault
FRAMEBUFFER_COMPLETE == "FRAMEBUFFER_COMPLETE"
FRAMEBUFFER_OTHER == "FRAMEBUFFER_INCOMPLETE"
Scales == {1, 2}               \* nativeScale values the main screen may report
ScreenBounds == <<2, 3>>       \* the main screen's bounds (width, height)
ResizeArgs == {0, 5}           \* arguments tried for resize

Handles == 1..MaxNew           \* ids of allocated EAGL contexts
ViewIds == 1..MaxNew           \* ids of allocated views

Notifications ==
    { "applicationDidBecomeActive", "applicationWillResignActive",
      "applicationDidEnterBackground", "applicationWillEnterForeground",
      "applicationWillTerminate" }

VARIABLES
    proc,        \* "running", "terminated" (Closed delivered), "killed", "crashed"
    pc,          \* position of the running Context::new, "idle" when none runs
    classes,     \* class names registered in the Objective-C runtime
    regCount,    \* successful decl.register() calls
    dupPanic,    \* a registration of an already registered name has panicked
    current,     \* the host's current EAGL context (Nil when none)
    nextHandle,  \* EAGL contexts allocated so far
    nextView,    \* views allocated so far
    gl,          \* per EAGL context: the GL objects that live in it
    viewState,   \* per view: hierarchy membership and layer properties
    contexts,    \* the Context values returned to callers
    built,       \* per returned Context: what its init_context observed
    newCalls,    \* Context::new calls made so far
    loc,         \* locals of the running Context::new
    lastOp,      \* the last call made and its result
    events,      \* lifecycle events emitted, in order
    notifs       \* host notifications received, in order

vars == << proc, pc, classes, regCount, dupPanic, current, nextHandle, nextView,
           gl, viewState, contexts, built, newCalls, loc, lastOp, events, notifs >>

\* everything a call can act on except the bookkeeping of the call itself
core == << proc, pc, classes, regCount, dupPanic, current, nextHandle, nextView,
           gl, viewState, contexts, built, loc, events, notifs >>

(* ------------------------------------------------------------ data types *)
\* pub struct Context { eagl_context: id, view: id }
Context(e, v) == [eagl_context |-> e, view |-> v]
NoCtx == Context(Nil, Nil)

Ok == <<"Ok">>
CreationError == <<"Err", "CreationError">>
IoError(msg) == <<"Err", "ContextError::IoError", msg>>
Panic(msg) == <<"panic", msg>>
Pending == <<"pending">>
NoResult == <<"none">>

GlEmpty == [rb |-> FALSE, storage |-> <<0, 0>>, fb |-> FALSE, attached |-> FALSE]
ViewEmpty == [inserted |-> FALSE, controller |-> FALSE, multitouch |-> FALSE,
              scale |-> 0, drawProps |-> "none"]
LocIdle == [multitouch |-> FALSE, eagl_ctx |-> Nil, view |-> Nil, scale |-> 0,
            mc |-> "none", ok |-> "none", attached |-> FALSE]

Op(name, ctx, args, host, res) ==
    [op |-> name, ctx |-> ctx, args |-> args, host |-> host, res |-> res]
NoArgs == << >>

(* --------------------------------------------------------- host behaviour *)
\* A BOOL-returning message sent to nil returns 0 (NO) without reaching the host.
MsgSendBool(receiver, host) == IF receiver = Nil THEN NO ELSE host

\* Answers the host can give to a GPU call: after applicationWillTerminate a
\* GPU call may also fault (module docs: "will result in segfault").
HostAnswers == IF proc = "terminated" THEN {YES, NO, FAULT} ELSE {YES, NO}

\* objc ClassDecl::new: None when the name is already taken in the runtime.
ClassDecl_new(name) == IF name \in classes THEN "None" ELSE "Some"

\* variant: the two Focused payloads exchanged
LifecycleEvent_swapped(n) ==
    CASE n = "applicationDidBecomeActive"     -> <<"Focused", FALSE>>
      [] n = "applicationWillResignActive"    -> <<"Focused", TRUE>>
      [] n = "applicationDidEnterBackground"  -> <<"Suspended", TRUE>>
      [] n = "applicationWillEnterForeground" -> <<"Suspended", FALSE>>
      [] n = "applicationWillTerminate"       -> <<"Closed">>

(* ----------------------------------------------------- lifecycle mapping *)
LifecycleEvent(n) ==
    CASE n = "applicationDidBecomeActive"     -> <<"Focused", TRUE>>
      [] n = "applicationWillResignActive"    -> <<"Focused", FALSE>>
      [] n = "applicationDidEnterBackground"  -> <<"Suspended", TRUE>>
      [] n = "applicationWillEnterForeground" -> <<"Suspended", FALSE>>
      [] n = "applicationWillTerminate"       -> <<"Closed">>

Closed == <<"Closed">>
ClosedEmitted == \E i \in 1..Len(events) : events[i] = Closed

\* the application is suspended: the last Suspended event carried true
IsSuspended ==
    \E i \in 1..Len(events) :
        /\ events[i] = <<"Suspended", TRUE>>
        /\ \A j \in (i+1)..Len(events) : events[j] # <<"Suspended", FALSE>>

(* ------------------------------------------------------------------ Init *)
Init ==
    /\ proc = "running"
    /\ pc = "idle"
    /\ classes = {}
    /\ regCount = 0
    /\ dupPanic = FALSE
    /\ current = Nil
    /\ nextHandle = 0
    /\ nextView = 0
    /\ gl = [h \in Handles |-> GlEmpty]
    /\ viewState = [v \in ViewIds |-> ViewEmpty]
    /\ contexts = {}
    /\ built = {}
    /\ newCalls = 0
    /\ loc = LocIdle
    /\ lastOp = Op("none", NoCtx, NoArgs, "none", NoResult)
    /\ events = << >>
    /\ notifs = << >>

(* ------------------------------------------ Context::new, step by step *)
\* the construction unwinds with a panic: nothing is returned to the caller
NewPanics(host, msg) ==
    /\ pc' = "idle"
    /\ loc' = LocIdle
    /\ lastOp' = Op("new", NoCtx, NoArgs, host, Panic(msg))

\* variant: the rendering context is allocated before the window is built
new_window_ctxfirst(multitouch, winOk) ==
    /\ pc = "idle"
    /\ proc = "running"
    /\ newCalls < MaxNew
    /\ newCalls' = newCalls + 1
    /\ nextHandle' = nextHandle + 1
    /\ IF winOk
       THEN /\ pc' = "create_uiview_class"
            /\ loc' = [LocIdle EXCEPT !.multitouch = multitouch,
                                      !.eagl_ctx = nextHandle + 1]
            /\ lastOp' = Op("new", NoCtx, NoArgs, "none", Pending)
       ELSE /\ pc' = "idle"
            /\ loc' = LocIdle
            /\ lastOp' = Op("new", NoCtx, NoArgs, "none", CreationError)
    /\ UNCHANGED << proc, classes, regCount, dupPanic, current, nextView,
                    gl, viewState, contexts, built, events, notifs >>

\* lines 113-114: clone the attributes, build the window; try! returns the error
new_window(multitouch, winOk) ==
    /\ pc = "idle"
    /\ proc = "running"
    /\ newCalls < MaxNew
    /\ newCalls' = newCalls + 1
    /\ IF winOk
       THEN /\ pc' = "create_context"
            /\ loc' = [LocIdle EXCEPT !.multitouch = multitouch]
            /\ lastOp' = Op("new", NoCtx, NoArgs, "none", Pending)
       ELSE /\ pc' = "idle"
            /\ loc' = LocIdle
            /\ lastOp' = Op("new", NoCtx, NoArgs, "none", CreationError)
    /\ UNCHANGED << proc, classes, regCount, dupPanic, current, nextHandle, nextView,
                    gl, viewState, contexts, built, events, notifs >>

\* lines 115, 199-205: alloc + initWithAPI:2; the host may answer nil
create_context(hostOk) ==
    /\ pc = "create_context"
    /\ IF hostOk
       THEN /\ nextHandle' = nextHandle + 1
            /\ loc' = [loc EXCEPT !.eagl_ctx = nextHandle + 1]
       ELSE /\ nextHandle' = nextHandle
            /\ loc' = [loc EXCEPT !.eagl_ctx = Nil]
    /\ pc' = "create_uiview_class"
    /\ UNCHANGED << proc, classes, regCount, dupPanic, current, nextView, gl,
                    viewState, contexts, built, newCalls, lastOp, events, notifs >>

\* lines 117, 266-305: ClassDecl::new(VIEW_CLASS, superclass).unwrap(), register()
create_uiview_class ==
    /\ pc = "create_uiview_class"
    /\ IF ClassDecl_new(VIEW_CLASS) = "None"
       THEN /\ dupPanic' = TRUE
            /\ NewPanics("none", "called Option::unwrap() on a None value")
            /\ UNCHANGED << classes, regCount >>
       ELSE /\ classes' = classes \cup {VIEW_CLASS}
            /\ regCount' = regCount + 1
            /\ pc' = "bind_view"
            /\ UNCHANGED << dupPanic, loc, lastOp >>
    /\ UNCHANGED << proc, current, nextHandle, nextView, gl, viewState, contexts,
                    built, newCalls, events, notifs >>

\* lines 118-137: query window, controller, screen; alloc and init the view;
\* make it the controller's view and a subview of the window
bind_view(scale) ==
    /\ pc = "bind_view"
    /\ nextView' = nextView + 1
    /\ viewState' = [v \in ViewIds |->
                        IF v = nextView + 1
                        THEN [viewState[v] EXCEPT !.inserted = TRUE, !.controller = TRUE]
                        ELSE [viewState[v] EXCEPT !.controller = FALSE]]
    /\ loc' = [loc EXCEPT !.view = nextView + 1, !.scale = scale]
    /\ pc' = "init_make_current"
    /\ UNCHANGED << proc, classes, regCount, dupPanic, current, nextHandle, gl,
                    contexts, built, newCalls, lastOp, events, notifs >>

\* [EAGLContext setCurrentContext: h]: on YES h is the current context
SetCurrentContext(h, res) == IF res = YES THEN h ELSE current

\* variant: the comparison with YES inverted
make_current_result_inverted(res) ==
    IF res # YES THEN Ok ELSE IoError("EAGLContext::setCurrentContext unsuccessful")

\* lines 211-218: the Result make_current builds from the host's BOOL
make_current_result(res) ==
    IF res = YES THEN Ok ELSE IoError("EAGLContext::setCurrentContext unsuccessful")

\* lines 145-159: build draw_props, then `let _ = self.make_current();`
init_make_current(host) ==
    /\ pc = "init_make_current"
    /\ current' = SetCurrentContext(loc.eagl_ctx, host)
    /\ loc' = [loc EXCEPT !.mc = make_current_result(host)[1]]
    /\ pc' = "init_layer"
    /\ UNCHANGED << proc, classes, regCount, dupPanic, nextHandle, nextView, gl,
                    viewState, contexts, built, newCalls, lastOp, events, notifs >>

\* lines 161-169: multitouch, content scale, layer scale, drawable properties
init_layer ==
    /\ pc = "init_layer"
    /\ viewState' = [viewState EXCEPT ![loc.view] =
                        [@ EXCEPT !.multitouch = loc.multitouch,
                                  !.scale = loc.scale,
                                  !.drawProps = "RGB565"]]
    /\ pc' = "init_renderbuffer"
    /\ UNCHANGED << proc, classes, regCount, dupPanic, current, nextHandle, nextView,
                    gl, contexts, built, newCalls, loc, lastOp, events, notifs >>

\* lines 171-175: GenRenderbuffers, BindRenderbuffer act on the current context
init_renderbuffer ==
    /\ pc = "init_renderbuffer"
    /\ gl' = IF current = Nil THEN gl ELSE [gl EXCEPT ![current].rb = TRUE]
    /\ pc' = "init_storage"
    /\ UNCHANGED << proc, classes, regCount, dupPanic, current, nextHandle, nextView,
                    viewState, contexts, built, newCalls, loc, lastOp, events, notifs >>

\* variant: the result of renderbufferStorage:fromDrawable: is not checked
init_storage_nocheck(host) ==
    /\ pc = "init_storage"
    /\ LET ok == MsgSendBool(loc.eagl_ctx, host) IN
       /\ gl' = IF ok = YES
                THEN [gl EXCEPT ![loc.eagl_ctx].storage =
                        << ScreenBounds[1] * viewState[loc.view].scale,
                           ScreenBounds[2] * viewState[loc.view].scale >>]
                ELSE gl
       /\ loc' = [loc EXCEPT !.ok = ok]
       /\ pc' = "init_framebuffer"
       /\ lastOp' = lastOp
    /\ UNCHANGED << proc, classes, regCount, dupPanic, current, nextHandle, nextView,
                    viewState, contexts, built, newCalls, events, notifs >>

\* lines 177-181: renderbufferStorage:fromDrawable: on self.eagl_context
init_storage(host) ==
    /\ pc = "init_storage"
    /\ LET ok == MsgSendBool(loc.eagl_ctx, host) IN
       IF ok # YES
       THEN /\ NewPanics(ok, "EAGL: could not set renderbufferStorage")
            /\ gl' = gl
       ELSE /\ gl' = [gl EXCEPT ![loc.eagl_ctx].storage =
                        << ScreenBounds[1] * viewState[loc.view].scale,
                           ScreenBounds[2] * viewState[loc.view].scale >>]
            /\ loc' = [loc EXCEPT !.ok = ok]
            /\ pc' = "init_framebuffer"
            /\ lastOp' = lastOp
    /\ UNCHANGED << proc, classes, regCount, dupPanic, current, nextHandle, nextView,
                    viewState, contexts, built, newCalls, events, notifs >>

\* lines 183-191: GenFramebuffers, BindFramebuffer, FramebufferRenderbuffer
init_framebuffer ==
    /\ pc = "init_framebuffer"
    /\ gl' = IF current = Nil THEN gl
             ELSE [gl EXCEPT ![current].fb = TRUE, ![current].attached = TRUE]
    /\ loc' = [loc EXCEPT !.attached = TRUE]
    /\ pc' = "init_status"
    /\ UNCHANGED << proc, classes, regCount, dupPanic, current, nextHandle, nextView,
                    viewState, contexts, built, newCalls, lastOp, events, notifs >>

\* lines 193-196 and 140: CheckFramebufferStatus, then Ok((window, ctx))
init_status(status) ==
    /\ pc = "init_status"
    /\ IF status # FRAMEBUFFER_COMPLETE
       THEN /\ NewPanics(status, "framebuffer status")
            /\ UNCHANGED << contexts, built >>
       ELSE LET ctx == Context(loc.eagl_ctx, loc.view) IN
            /\ contexts' = contexts \cup {ctx}
            /\ built' = built \cup {[ctx |-> ctx, mc |-> loc.mc, storage |-> loc.ok,
                                     attached |-> loc.attached, status |-> status]}
            /\ pc' = "idle"
            /\ loc' = LocIdle
            /\ lastOp' = Op("new", ctx, NoArgs, status, Ok)
    /\ UNCHANGED << proc, classes, regCount, dupPanic, current, nextHandle, nextView,
                    gl, viewState, newCalls, events, notifs >>

(* ------------------------------------------------- operations on a Context *)
Callable == pc = "idle" /\ proc \in {"running", "terminated"}

\* lines 207-219
make_current(c, host) ==
    /\ Callable
    /\ IF host = FAULT
       THEN /\ proc' = "crashed"
            /\ current' = current
            /\ lastOp' = Op("make_current", c, NoArgs, host, NoResult)
       ELSE /\ proc' = proc
            /\ current' = SetCurrentContext(c.eagl_context, host)
            /\ lastOp' = Op("make_current", c, NoArgs, host, make_current_result(host))
    /\ UNCHANGED << pc, classes, regCount, dupPanic, nextHandle, nextView, gl,
                    viewState, contexts, built, newCalls, loc, events, notifs >>

\* variant: the host's answer is dropped
swap_buffers_result_alwaysOk(res) == Ok

\* lines 234-238: the Result swap_buffers builds from the host's BOOL
swap_buffers_result(res) ==
    IF res = YES THEN Ok ELSE IoError("EAGLContext.presentRenderbuffer unsuccessful")

\* lines 230-240
swap_buffers(c, host) ==
    /\ Callable
    /\ LET res == MsgSendBool(c.eagl_context, host) IN
       IF res = FAULT
       THEN /\ proc' = "crashed"
            /\ lastOp' = Op("swap_buffers", c, NoArgs, res, NoResult)
       ELSE /\ proc' = proc
            /\ lastOp' = Op("swap_buffers", c, NoArgs, res, swap_buffers_result(res))
    /\ UNCHANGED << pc, classes, regCount, dupPanic, current, nextHandle, nextView, gl,
                    viewState, contexts, built, newCalls, loc, events, notifs >>

\* lines 242-248: [EAGLContext current] == self.eagl_context
is_current(c) == current = c.eagl_context

\* variant: resize reallocates the renderbuffer storage at the given size
resize_realloc(c, width, height) ==
    /\ Callable
    /\ lastOp' = Op("resize", c, <<width, height>>, "none", <<"unit">>)
    /\ gl' = IF c.eagl_context = Nil THEN gl
             ELSE [gl EXCEPT ![c.eagl_context].storage = <<width, height>>]
    /\ UNCHANGED << proc, pc, classes, regCount, dupPanic, current, nextHandle,
                    nextView, viewState, contexts, built, newCalls, loc,
                    events, notifs >>

\* lines 260-263: "No sense on iOS"
resize(c, width, height) ==
    /\ Callable
    /\ lastOp' = Op("resize", c, <<width, height>>, "none", <<"unit">>)
    /\ UNCHANGED << proc, pc, classes, regCount, dupPanic, current, nextHandle,
                    nextView, gl, viewState, contexts, built, newCalls, loc,
                    events, notifs >>

(* --------------------------------------------------------------- lifecycle *)
\* variant: notifications keep arriving after applicationWillTerminate
Notify_afterClosed(n, limit) ==
    /\ pc = "idle"
    /\ proc \in {"running", "terminated"}
    /\ Len(notifs) < limit
    /\ notifs' = Append(notifs, n)
    /\ events' = Append(events, LifecycleEvent(n))
    /\ proc' = IF n = "applicationWillTerminate" THEN "terminated" ELSE proc
    /\ lastOp' = Op("notify", NoCtx, <<n>>, "none", NoResult)
    /\ UNCHANGED << pc, classes, regCount, dupPanic, current, nextHandle, nextView,
                    gl, viewState, contexts, built, newCalls, loc >>

\* module docs, lines 47-53: one event per host notification; after
\* applicationWillTerminate the application receives nothing more
Notify(n, limit) ==
    /\ pc = "idle"
    /\ proc = "running"
    /\ Len(notifs) < limit
    /\ notifs' = Append(notifs, n)
    /\ events' = Append(events, LifecycleEvent(n))
    /\ proc' = IF n = "applicationWillTerminate" THEN "terminated" ELSE proc
    /\ lastOp' = Op("notify", NoCtx, <<n>>, "none", NoResult)
    /\ UNCHANGED << pc, classes, regCount, dupPanic, current, nextHandle, nextView,
                    gl, viewState, contexts, built, newCalls, loc >>

\* module docs, line 57: a suspended application is SIGKILL'ed, no Closed event
HostKill ==
    /\ pc = "idle"
    /\ proc = "running"
    /\ IsSuspended
    /\ proc' = "killed"
    /\ lastOp' = Op("kill", NoCtx, NoArgs, "none", NoResult)
    /\ UNCHANGED << pc, classes, regCount, dupPanic, current, nextHandle, nextView,
                    gl, viewState, contexts, built, newCalls, loc, events, notifs >>

(* ---------------------------------------------------------- specifications *)
Next ==
    \/ \E m \in BOOLEAN, w \in BOOLEAN : new_window(m, w)
    \/ \E h \in BOOLEAN : create_context(h)
    \/ create_uiview_class
    \/ \E s \in Scales : bind_view(s)
    \/ \E r \in {YES, NO} : init_make_current(r)
    \/ init_layer
    \/ init_renderbuffer
    \/ \E r \in {YES, NO} : init_storage(r)
    \/ init_framebuffer
    \/ \E s \in {FRAMEBUFFER_COMPLETE, FRAMEBUFFER_OTHER} : init_status(s)
    \/ \E c \in contexts, r \in HostAnswers : make_current(c, r)
    \/ \E c \in contexts, r \in HostAnswers : swap_buffers(c, r)
    \/ \E c \in contexts, w \in ResizeArgs, h \in ResizeArgs : resize(c, w, h)
    \/ \E n \in Notifications : Notify(n, MaxEvents)
    \/ HostKill

Spec == Init /\ [][Next]_vars

\* the lifecycle alone: notifications and the kill of a suspended application
NextLifecycle ==
    \/ \E n \in Notifications : Notify(n, MaxNotifs)
    \/ HostKill

SpecLifecycle == Init /\ [][NextLifecycle]_vars

(* ------------------------------------------------------------------ claims *)
GpuOps == {"make_current", "swap_buffers"}
StagesAfterContext ==
    {"bind_view", "init_make_current", "init_layer", "init_renderbuffer",
     "init_storage", "init_framebuffer", "init_status"}
StagesAfterRenderbuffer == {"init_storage", "init_framebuffer", "init_status"}

\* C1 (as stated): over any number of Context::new calls the view class is
\* registered exactly once; a later creation finds the class registered and
\* reuses it, and no registration of the already registered name is attempted,
\* so no duplicate-registration panic is raised.
C1_RegisteredOnceNoFault ==
    /\ regCount <= 1
    /\ ~dupPanic

\* C2: right after a make_current on c that returned Ok, c.is_current() holds
\* and is_current is false for every context whose handle differs from c's.
C2_MakeCurrentThenIsCurrent ==
    (lastOp.op = "make_current" /\ lastOp.res = Ok) =>
        /\ is_current(lastOp.ctx)
        /\ \A other \in contexts :
              other.eagl_context # lastOp.ctx.eagl_context => ~is_current(other)
        /\ \A h \in {Nil} \cup Handles, v \in ViewIds :
              h # lastOp.ctx.eagl_context => ~is_current(Context(h, v))

\* C2 witness: a make_current has returned Ok on a returned Context
C2_Witness ==
    /\ lastOp.op = "make_current"
    /\ lastOp.res = Ok
    /\ lastOp.ctx \in contexts
    /\ nextHandle > 1

\* C3: every Context returned in Ok had its renderbuffer storage allocated
\* (the host answered YES), the renderbuffer attached to its framebuffer and
\* the framebuffer reported complete; a denied storage allocation or an
\* incomplete framebuffer ends the construction in a panic with no Context.
C3_NoPartialContext ==
    /\ \A c \in contexts :
          /\ \E b \in built :
                /\ b.ctx = c
                /\ b.storage = YES
                /\ b.attached
                /\ b.status = FRAMEBUFFER_COMPLETE
          /\ \A b \in built : b.ctx = c => (b.storage = YES /\ b.attached)
          /\ c.eagl_context # Nil
          /\ gl[c.eagl_context].storage # <<0, 0>>
    /\ (lastOp.op = "new" /\ lastOp.host \in {NO, FRAMEBUFFER_OTHER}) =>
          /\ lastOp.res[1] = "panic"
          /\ lastOp.ctx = NoCtx
    /\ (lastOp.op = "new" /\ lastOp.res = Ok) => lastOp.ctx \in contexts

\* C3 witness: a construction has returned Ok with a Context
C3_Witness ==
    /\ lastOp.op = "new"
    /\ lastOp.res = Ok
    /\ contexts # {}

\* C4 (as stated): when create_context yields a null handle, Context::new
\* returns Err(CreationError) and does not go on to build the view and the
\* framebuffer with the null handle.
C4_NullHandleIsCreationError ==
    /\ pc \in StagesAfterContext => loc.eagl_ctx # Nil
    /\ \A c \in contexts : c.eagl_context # Nil

\* C5: the emitted events are the element-wise image of the notifications
\* received, one event per notification in the same order; active,
\* will-resign-active, entered-background, will-terminate gives
\* Focused(true), Focused(false), Suspended(true), Closed.
C5_LifecycleMapping ==
    /\ Len(events) = Len(notifs)
    /\ \A i \in 1..Len(notifs) :
          /\ notifs[i] = "applicationDidBecomeActive" => events[i] = <<"Focused", TRUE>>
          /\ notifs[i] = "applicationWillResignActive" => events[i] = <<"Focused", FALSE>>
          /\ notifs[i] = "applicationDidEnterBackground" => events[i] = <<"Suspended", TRUE>>
          /\ notifs[i] = "applicationWillEnterForeground" => events[i] = <<"Suspended", FALSE>>
          /\ notifs[i] = "applicationWillTerminate" => events[i] = <<"Closed">>
    /\ notifs = << "applicationDidBecomeActive", "applicationWillResignActive",
                   "applicationDidEnterBackground", "applicationWillTerminate" >>
          => events = << <<"Focused", TRUE>>, <<"Focused", FALSE>>,
                         <<"Suspended", TRUE>>, <<"Closed">> >>

\* C5 witness: the four notifications of the example have been delivered
C5_Witness ==
    notifs = << "applicationDidBecomeActive", "applicationWillResignActive",
                "applicationDidEnterBackground", "applicationWillTerminate" >>

C7_ResultFollowsHost ==
    [][ lastOp'.op \in GpuOps =>
          /\ lastOp'.res = Ok <=> lastOp'.host = YES
          /\ lastOp'.host # YES =>
                (lastOp'.res[1] = "Err" /\ lastOp'.res[2] = "ContextError::IoError")
          /\ (lastOp'.op = "make_current" /\ is_current(lastOp'.ctx)) =>
                (lastOp'.res = Ok /\ current' = current)
      ]_vars

\* C7 (amended): make_current and swap_buffers return Ok exactly when the
\* host reports YES and Err(IoError) with a non-empty message when it reports
\* NO, never a panic; make_current on the context that is already current
\* leaves the current context unchanged, and returns Ok when the host reports
\* YES.
C7_ResultFollowsHostAnswer ==
    [][ lastOp'.op \in GpuOps =>
          /\ lastOp'.res = Ok <=> lastOp'.host = YES
          /\ lastOp'.host = NO =>
                /\ lastOp'.res[1] = "Err"
                /\ lastOp'.res[2] = "ContextError::IoError"
                /\ lastOp'.res[3] # ""
          /\ lastOp'.res[1] # "panic"
          /\ (lastOp'.op = "make_current" /\ is_current(lastOp'.ctx)) =>
                /\ current' = current
                /\ lastOp'.host = YES => lastOp'.res = Ok
      ]_vars

\* C7 witness: the host has denied a swap_buffers, which returned Err
C7_Witness ==
    /\ lastOp.op = "swap_buffers"
    /\ lastOp.host = NO
    /\ lastOp.res[1] = "Err"

\* C8: resize(w, h) returns nothing but unit and leaves the renderbuffer
\* storage, the Context's handles, the current context and the registration
\* state unchanged.
C8_ResizeNoOp ==
    [][ lastOp'.op = "resize" =>
          /\ lastOp'.res = <<"unit">>
          /\ UNCHANGED core
      ]_vars

\* C8 witness: resize(5, 0) has been called on a Context whose storage exists
C8_Witness ==
    /\ lastOp.op = "resize"
    /\ lastOp.args = <<5, 0>>
    /\ lastOp.ctx \in contexts
    /\ gl[lastOp.ctx.eagl_context].storage # <<0, 0>>

\* C9 (as stated): in init_context no renderbuffer or framebuffer is
\* generated unless the preceding make_current succeeded and the context
\* being built is the current one; the drawable properties are set before
\* storage is allocated from the layer.
C9_CurrentBeforeGpuObjects ==
    /\ pc \in StagesAfterRenderbuffer =>
          /\ loc.mc = "Ok"
          /\ current = loc.eagl_ctx
          /\ viewState[loc.view].drawProps = "RGB565"
    /\ \A b \in built : b.mc = "Ok"

\* C10: a failed window build makes Context::new return Err(CreationError)
\* with no rendering context allocated, no class registered, no view created
\* or inserted, the current context unchanged and no GPU object created.
C10_WindowFailureNoEffect ==
    [][ (lastOp'.op = "new" /\ lastOp'.res = CreationError /\ pc = "idle") =>
          /\ pc' = "idle"
          /\ UNCHANGED << classes, regCount, dupPanic, current, nextHandle, nextView,
                          gl, viewState, contexts, built, events, notifs >>
      ]_vars

\* C10 witness: a Context::new has returned Err(CreationError)
C10_Witness ==
    /\ lastOp.op = "new"
    /\ lastOp.res = CreationError

====
